---- MODULE Spec2Model ----
(***************************************************************************)
(* A model of the traffic-sign inference service: the lazy model handle    *)
(* (src/src/infer.py), the bounded asynchronous MLflow logger              *)
(* (src/src/mltrack.py) and the request handlers that drive them           *)
(* (src/src/service.py).                                                   *)
(*                                                                         *)
(* Threads.  FastAPI runs the `async def` handlers (predict,               *)
(* predict_batch, the lifespan) on the event-loop thread and the plain     *)
(* `def` handlers (warmup) on pool threads; threading.Thread(target=       *)
(* _worker) adds the logger's worker.                                      *)
(* The module globals _model, _started and _q are shared by all of them    *)
(* and no lock guards the first two, so get_model() and start() are        *)
(* modelled statement by statement.                                        *)
(***************************************************************************)
EXTENDS Integers, Sequences, FiniteSets, TLC

\* ---------------------------------------------------------------- bounds

\* queue.Queue(maxsize=10000) scaled down: the capacity of _q in the model.
QMaxSize == 1
\* How many requests (/warmup, /predict, /predict_batch) are served in a
\* behaviour, a batch counting once for each of its files.
MaxReqs == 2
\* How many times one caller calls start().
MaxStarts == 2
\* How many boxes a detector result has, when box mapping is taken alone.
MaxBoxes == 2

\* ------------------------------------------------------------- constants

\* Python's None: the unset _model, and the stop value of the queue.
None == 0

\* The threads that may call start(): the lifespan, which runs on the event
\* loop, and (in StartRaceSpec) another thread calling it at the same time.
StartCallers == {"lifespan", "other"}
\* The threads start() can have created: at most one per caller that passed
\* the `if _started` test.
Workers == 1..Cardinality(StartCallers)
\* The event-loop thread and the pool threads that serve requests.
LoopThread == "loop"
PoolThreads == {"pool1", "pool2"}
Threads == {LoopThread} \cup PoolThreads

\* The outcomes of a call into the MLflow client: it returns or it raises.
Outcomes == {"ok", "raise"}

VARIABLES
    mlflowUri,   \* mltrack._MLFLOW_URI is set (truthy)
    q,           \* mltrack._q: the queued items, oldest first
    unfinished,  \* _q.unfinished_tasks: put increments, task_done decrements
    events,      \* the dicts log_async has built; an item of q is an index here
    started,     \* mltrack._started
    callers,     \* the threads that call start() in this behaviour
    spc,         \* start(): where each caller is
    ncalls,      \* start(): how many calls each caller has made
    wpc,         \* _worker(): where each worker thread is
    witem,       \* _worker(): the item each worker holds
    mlflow,      \* the calls made into the MLflow client, in order
    logged,      \* the calls of log_async(): the request that made each
    detected,    \* box mapping taken alone: the boxes of a detector result
    mapped,      \* box mapping taken alone: whether it has run, and its boxes
    model,       \* infer._model: None or the handle stored
    nloads,      \* how many times YOLO(WEIGHTS_PATH) has been invoked
    okloads,     \* the invocations of YOLO(WEIGHTS_PATH) that returned a handle
    pc,          \* the request threads: where each is
    req,         \* the request each thread is serving
    resp,        \* the last response each thread has sent
    warmed,      \* some /warmup has answered ok=True
    audit,       \* the lines appended to the CSV audit log
    nreq         \* how many requests have been accepted

\* What no step of the service changes: the environment variable, and the
\* variables of the box mapping taken alone.
fixed == <<mlflowUri, detected, mapped>>

mlvars == <<fixed, q, unfinished, events, started, callers, spc, ncalls,
            wpc, witem, mlflow, logged>>
gmvars == <<model, nloads, okloads>>
rqvars == <<pc, req, resp, warmed, audit, nreq>>
vars == <<mlflowUri, detected, mapped, q, unfinished, events, started, callers,
          spc, ncalls, wpc, witem, mlflow, logged, model, nloads, okloads, pc,
          req, resp, warmed, audit, nreq>>

\* ------------------------------------------------------------ mltrack.py

\* A call into the MLflow client, as the log keeps it.
Call(name, item, outcome) == [call |-> name, item |-> item, ok |-> outcome = "ok"]

\* start(), line 35: `if _started: return`. The lifespan runs on the event
\* loop, between two requests of the loop and never inside one.
StartCheck(c) ==
    /\ c \in callers
    /\ spc[c] = "idle"
    /\ c = "lifespan" => pc[LoopThread] = "idle"
    /\ ncalls[c] < MaxStarts
    /\ ncalls' = [ncalls EXCEPT ![c] = @ + 1]
    /\ spc' = [spc EXCEPT ![c] = IF started THEN "idle" ELSE "set"]
    /\ UNCHANGED <<logged, fixed, q, unfinished, events, started, callers, wpc,
                   witem, mlflow>>
    /\ UNCHANGED gmvars /\ UNCHANGED rqvars

\* start(), line 36: `_started = True`.
StartSet(c) ==
    /\ spc[c] = "set"
    /\ started' = TRUE
    /\ spc' = [spc EXCEPT ![c] = "spawn"]
    /\ UNCHANGED <<logged, fixed, q, unfinished, events, callers, ncalls, wpc,
                   witem, mlflow>>
    /\ UNCHANGED gmvars /\ UNCHANGED rqvars

\* The worker slot the next threading.Thread gets.
FreeWorker == CHOOSE w \in Workers :
    /\ wpc[w] = "none"
    /\ \A v \in Workers : wpc[v] = "none" => w <= v

\* start(), lines 37-38: create the daemon thread and start it.
StartSpawn(c) ==
    /\ spc[c] = "spawn"
    /\ wpc' = [wpc EXCEPT ![FreeWorker] = "begin"]
    /\ spc' = [spc EXCEPT ![c] = "idle"]
    /\ UNCHANGED <<logged, fixed, q, unfinished, events, started, callers, ncalls,
                   witem, mlflow>>
    /\ UNCHANGED gmvars /\ UNCHANGED rqvars

\* _worker(), lines 12-15: return when tracking is disabled; otherwise
\* set_tracking_uri and set_experiment, outside any try: the first that raises
\* ends the thread.
WorkerBegin(w) ==
    /\ wpc[w] = "begin"
    /\ IF ~mlflowUri
       THEN /\ wpc' = [wpc EXCEPT ![w] = "returned"]
            /\ UNCHANGED mlflow
       ELSE \E uri \in Outcomes, exp \in Outcomes :
            /\ mlflow' = mlflow \o
                 (IF uri = "ok"
                  THEN <<Call("set_tracking_uri", None, uri),
                         Call("set_experiment", None, exp)>>
                  ELSE <<Call("set_tracking_uri", None, uri)>>)
            /\ wpc' = [wpc EXCEPT ![w] =
                 IF uri = "ok" /\ exp = "ok" THEN "get" ELSE "crashed"]
    /\ UNCHANGED <<logged, fixed, q, unfinished, events, started, callers, spc,
                   ncalls, witem>>
    /\ UNCHANGED gmvars /\ UNCHANGED rqvars

\* _worker(), lines 17-19: the blocking _q.get(), and the break on None.
WorkerGet(w) ==
    /\ wpc[w] = "get"
    /\ q # <<>>
    /\ q' = Tail(q)
    /\ witem' = [witem EXCEPT ![w] = Head(q)]
    /\ wpc' = [wpc EXCEPT ![w] = IF Head(q) = None THEN "stopped" ELSE "run"]
    /\ UNCHANGED <<logged, fixed, unfinished, events, started, callers, spc,
                   ncalls, mlflow>>
    /\ UNCHANGED gmvars /\ UNCHANGED rqvars

\* A faulty _worker(): start_run outside the try, so that its exception ends
\* the thread with the item neither forwarded nor marked done.
WorkerStartRun_unguarded(w) ==
    /\ wpc[w] = "run"
    /\ \E o \in Outcomes :
         /\ mlflow' = Append(mlflow, Call("start_run", witem[w], o))
         /\ wpc' = [wpc EXCEPT ![w] = IF o = "ok" THEN "log" ELSE "crashed"]
    /\ UNCHANGED <<logged, fixed, q, unfinished, events, started, callers, spc,
                   ncalls, witem>>
    /\ UNCHANGED gmvars /\ UNCHANGED rqvars

\* _worker(), line 21: mlflow.start_run(...) opens the run of the item, or
\* raises: `except Exception: pass`, then `finally: _q.task_done()`.
WorkerStartRun(w) ==
    /\ wpc[w] = "run"
    /\ \E o \in Outcomes :
         /\ mlflow' = Append(mlflow, Call("start_run", witem[w], o))
         /\ IF o = "ok"
            THEN /\ wpc' = [wpc EXCEPT ![w] = "log"]
                 /\ UNCHANGED <<witem, unfinished>>
            ELSE /\ wpc' = [wpc EXCEPT ![w] = "get"]
                 /\ witem' = [witem EXCEPT ![w] = None]
                 /\ unfinished' = unfinished - 1
    /\ UNCHANGED <<logged, fixed, q, events, started, callers, spc, ncalls>>
    /\ UNCHANGED gmvars /\ UNCHANGED rqvars

\* A faulty run: start_run used without `with`, so that no end_run closes it.
RunBody_unclosed(item, met, par) ==
    <<Call("log_metric", item, met)>>
    \o (IF met = "ok" THEN <<Call("log_param", item, par)>> ELSE <<>>)

\* The calls of the body of the `with` (lines 23-27) and of its exit: the
\* metrics loop, then the params loop unless the metrics loop raised, then
\* end_run, which the context manager calls whether the body raised or not.
RunBody(item, met, par) ==
    <<Call("log_metric", item, met)>>
    \o (IF met = "ok" THEN <<Call("log_param", item, par)>> ELSE <<>>)
    \o <<Call("end_run", item, "ok")>>

\* _worker(), lines 22-31: the body of the run. What it raises is swallowed
\* (line 28), the item is marked done (line 31) and the loop goes on.
WorkerLog(w) ==
    /\ wpc[w] = "log"
    /\ \E met \in Outcomes, par \in Outcomes :
         mlflow' = mlflow \o RunBody(witem[w], met, par)
    /\ wpc' = [wpc EXCEPT ![w] = "get"]
    /\ witem' = [witem EXCEPT ![w] = None]
    /\ unfinished' = unfinished - 1
    /\ UNCHANGED <<logged, fixed, q, events, started, callers, spc, ncalls>>
    /\ UNCHANGED gmvars /\ UNCHANGED rqvars

\* A faulty log_async(): a queue with no maxsize, which takes every event.
log_async_unbounded(ev) ==
    /\ logged' = Append(logged, ev.req)
    /\ IF ~mlflowUri
       THEN UNCHANGED <<q, unfinished, events>>
       ELSE /\ events' = Append(events, ev)
            /\ q' = Append(q, Len(events) + 1)
            /\ unfinished' = unfinished + 1

\* A faulty log_async(): no test of _MLFLOW_URI, so that events are queued
\* with tracking disabled.
log_async_unchecked(ev) ==
    /\ logged' = Append(logged, ev.req)
    /\ events' = Append(events, ev)
    /\ IF Len(q) < QMaxSize
       THEN /\ q' = Append(q, Len(events) + 1)
            /\ unfinished' = unfinished + 1
       ELSE UNCHANGED <<q, unfinished>>

\* A faulty log_async(): put() in place of put_nowait(), which waits for room
\* in a full queue.
log_async_blocks(ev) ==
    /\ logged' = Append(logged, ev.req)
    /\ IF ~mlflowUri
       THEN UNCHANGED <<q, unfinished, events>>
       ELSE /\ Len(q) < QMaxSize
            /\ events' = Append(events, ev)
            /\ q' = Append(q, Len(events) + 1)
            /\ unfinished' = unfinished + 1

\* log_async(), lines 41-46, called with the dict `ev` unbuilt: nothing when
\* tracking is disabled; otherwise the dict is built and put_nowait either
\* queues it or raises queue.Full, which is swallowed.
log_async(ev) ==
    /\ logged' = Append(logged, ev.req)
    /\ IF ~mlflowUri
       THEN UNCHANGED <<q, unfinished, events>>
       ELSE /\ events' = Append(events, ev)
            /\ IF Len(q) < QMaxSize
               THEN /\ q' = Append(q, Len(events) + 1)
                    /\ unfinished' = unfinished + 1
               ELSE UNCHANGED <<q, unfinished>>

\* -------------------------------------------------------------- infer.py

\* config.py, lines 10-21.
CLASS_NAMES == <<"Speed Limit 50", "Speed Limit 100", "No Overtaking", "Yield",
                 "Stop", "No Entry", "Danger Ahead", "Road Work Ahead",
                 "Pedestrian Crossing", "Children Crossing">>

\* config.py, line 7.
INPUT_SIZE == 320

\* Time is counted in ten-thousandths of a millisecond, on a stopwatch that
\* each request carries: what the steps of predict_file() and of the batch
\* loop cost on it.
Cost == [read |-> 11, decode |-> 7004, load |-> 900000, resize |-> 1203, map |-> 101,
         append |-> 5]

\* The uploads: the name of each file says what it holds. "broken.png" is no
\* image; the others decode.
Images == {"empty.png", "signs.png", "broken.png"}

\* _read_image_bytes(), lines 21-24: PIL raises on bytes that are no image.
Decodes(img) == img # "broken.png"

\* What model.predict returns for an image when it does not raise, and the
\* time it takes: for each box the class index, the confidence in units of
\* 0.00001 and the corners in tenths of a pixel. "signs.png" has two boxes, the
\* first of a class of the table, the second of a class past its end and
\* reaching over the left edge.
Detections ==
    [img \in Images |->
       IF img = "signs.png"
       THEN [ms |-> 51234,
             boxes |-> <<[cls |-> 6, conf |-> 91236, xyxy |-> <<105, 207, 1009, 1995>>],
                         [cls |-> 10, conf |-> 30005, xyxy |-> <<-5, 0, 500, 3199>>]>>]
       ELSE [ms |-> 20005, boxes |-> <<>>]]

Digit(d) == CASE d = 0 -> "0" [] d = 1 -> "1" [] d = 2 -> "2" [] d = 3 -> "3"
              [] d = 4 -> "4" [] d = 5 -> "5" [] d = 6 -> "6" [] d = 7 -> "7"
              [] d = 8 -> "8" [] d = 9 -> "9"

RECURSIVE Digits(_)
Digits(n) == IF n < 10 THEN Digit(n) ELSE Digits(n \div 10) \o Digit(n % 10)

\* Python's str() of an int.
str(n) == IF n < 0 THEN "-" \o Digits(-n) ELSE Digits(n)

\* A faulty mapping: without the test `0 <= c_id` a negative index counts
\* from the end of the list, as Python's lists do.
ClassName_noLowerTest(c_id) ==
    IF c_id < Len(CLASS_NAMES)
    THEN CLASS_NAMES[(IF c_id < 0 THEN Len(CLASS_NAMES) + c_id ELSE c_id) + 1]
    ELSE str(c_id)

\* predict_ndarray(), line 54: CLASS_NAMES is indexed from 0.
ClassName(c_id) ==
    IF 0 <= c_id /\ c_id < Len(CLASS_NAMES) THEN CLASS_NAMES[c_id + 1] ELSE str(c_id)

\* round(): n/d to the nearest integer, a tie to the even one.
RoundHalfEven(n, d) ==
    LET lo == n \div d
        r  == n % d
    IN  IF 2 * r < d THEN lo
        ELSE IF 2 * r > d THEN lo + 1
        ELSE IF lo % 2 = 0 THEN lo ELSE lo + 1

\* predict_ndarray(), line 50: astype(int) drops the fraction, towards zero.
AsInt(x) == IF x >= 0 THEN x \div 10 ELSE -((-x) \div 10)

\* predict_ndarray(), lines 55-59: the dict of one box; conf is rounded to 4
\* decimals (here: to units of 0.0001).
MapBox(b) ==
    [cls |-> ClassName(b.cls), conf |-> RoundHalfEven(b.conf, 10),
     x1 |-> AsInt(b.xyxy[1]), y1 |-> AsInt(b.xyxy[2]),
     x2 |-> AsInt(b.xyxy[3]), y2 |-> AsInt(b.xyxy[4])]

\* predict_ndarray(), lines 46-59: one box per detection, in the detector's order.
MapBoxes(det) == [i \in 1..Len(det) |-> MapBox(det[i])]

\* get_model(), line 16: `if _model is None`.
GetModelCheck(t) ==
    /\ pc[t] = "gm_check"
    /\ pc' = [pc EXCEPT ![t] = IF model = None THEN "gm_load" ELSE "gm_ret"]
    /\ UNCHANGED <<req, resp, warmed, audit, nreq>>
    /\ UNCHANGED gmvars /\ UNCHANGED mlvars

\* A faulty get_model(): a load that fails leaves a broken handle in _model,
\* which later calls return.
GetModelLoad_cachesFailure(t) ==
    /\ pc[t] = "gm_load"
    /\ nloads' = nloads + 1
    /\ model' = nloads + 1
    /\ \E o \in Outcomes :
         IF o = "ok"
         THEN /\ okloads' = okloads \cup {nloads + 1}
              /\ pc' = [pc EXCEPT ![t] = "gm_ret"]
         ELSE /\ pc' = [pc EXCEPT ![t] = "gm_raise"]
              /\ UNCHANGED okloads
    /\ req' = [req EXCEPT ![t].clock = @ + Cost.load]
    /\ UNCHANGED <<resp, warmed, audit, nreq>>
    /\ UNCHANGED mlvars

\* get_model(), line 17: `_model = YOLO(str(WEIGHTS_PATH))`. The loader returns
\* a new handle, which is stored, or raises, which leaves _model as it was and
\* takes the exception to the caller.
GetModelLoad(t) ==
    /\ pc[t] = "gm_load"
    /\ nloads' = nloads + 1
    /\ \E o \in Outcomes :
         IF o = "ok"
         THEN /\ model' = nloads + 1
              /\ okloads' = okloads \cup {nloads + 1}
              /\ pc' = [pc EXCEPT ![t] = "gm_ret"]
         ELSE /\ pc' = [pc EXCEPT ![t] = "gm_raise"]
              /\ UNCHANGED <<model, okloads>>
    /\ req' = [req EXCEPT ![t].clock = @ + Cost.load]
    /\ UNCHANGED <<resp, warmed, audit, nreq>>
    /\ UNCHANGED mlvars

\* get_model(), line 18: `return _model` reads the global again.
GetModelReturn(t) ==
    /\ pc[t] = "gm_ret"
    /\ req' = [req EXCEPT ![t].handle = model]
    /\ pc' = [pc EXCEPT ![t] = "have_model"]
    /\ UNCHANGED <<resp, warmed, audit, nreq>>
    /\ UNCHANGED gmvars /\ UNCHANGED mlvars

\* ------------------------------------------------------------ service.py

\* A request that is being served: what it is, its number, the threshold it
\* asked for, the files it uploads, whether a /warmup had answered ok=True when
\* it came in, the handle get_model() gave it, its stopwatch, the stopwatch when
\* predict_file() was entered last, the results of a batch so far, and for
\* each of them when predict_file() was entered and when it returned.
Request(op, conf, n) ==
    [op |-> op, id |-> n, conf |-> conf, since |-> warmed, handle |-> None,
     files |-> <<>>, clock |-> 0, entered |-> 0, results |-> <<>>, spans |-> <<>>]
NoRequest == [op |-> "none", id |-> 0, conf |-> 0, since |-> FALSE, handle |-> None,
              files |-> <<>>, clock |-> 0, entered |-> 0, results |-> <<>>,
              spans |-> <<>>]

\* A response: of which request, the status, ok (of a /warmup), the boxes (of a
\* /predict), what the request carried, and the rest of the body: the detail of
\* an error, latency_ms of a /predict, and results, batch_size,
\* batch_latency_ms and avg_latency_ms of a /predict_batch. Of a 200, also the
\* files that were uploaded, the latency predict_file() returned (total_ms),
\* before rounding, the stopwatch of the request when it was answered (elapsed:
\* what a batch measures), and when each predict_file() of a batch was entered
\* and returned (spans).
Response(r, status, ok, boxes) ==
    [op |-> r.op, id |-> r.id, status |-> status, ok |-> ok, boxes |-> boxes,
     since |-> r.since, handle |-> r.handle, files |-> <<>>, detail |-> "",
     total_ms |-> 0, latency_ms |-> 0, results |-> <<>>, batch_size |-> 0,
     elapsed |-> 0, batch_latency_ms |-> 0, avg_latency_ms |-> 0,
     spans |-> <<>>]
NoResponse == Response(NoRequest, 0, FALSE, <<>>)

\* The confidence thresholds of the requests, in hundredths.
Confs == {25}

\* Python's str() of a float that is a number of hundredths: "0.25", "0.5", "1.0".
FloatStr(c) ==
    str(c \div 100) \o "." \o
    (IF c % 10 = 0 THEN Digit((c % 100) \div 10)
     ELSE Digit((c % 100) \div 10) \o Digit(c % 10))

\* warmup(), lines 58-61: the call of get_model(). The pool runs the handler
\* on a free thread; which one cannot be told from inside, so the second is
\* taken when the first is busy.
WarmupCall(t) ==
    /\ pc[t] = "idle"
    /\ t = "pool2" => pc["pool1"] # "idle"
    /\ nreq < MaxReqs
    /\ nreq' = nreq + 1
    /\ req' = [req EXCEPT ![t] = Request("warmup", 0, nreq + 1)]
    /\ pc' = [pc EXCEPT ![t] = "gm_check"]
    /\ UNCHANGED <<resp, warmed, audit>>
    /\ UNCHANGED gmvars /\ UNCHANGED mlvars

\* warmup(), lines 62-64: ok=True when get_model() returned, ok=False when it
\* raised; either way a Warmup response, status 200.
WarmupReturn(t) ==
    /\ req[t].op = "warmup"
    /\ pc[t] \in {"have_model", "gm_raise"}
    /\ resp' = [resp EXCEPT ![t] = Response(req[t], 200, pc[t] = "have_model", <<>>)]
    /\ warmed' = (warmed \/ pc[t] = "have_model")
    /\ pc' = [pc EXCEPT ![t] = "idle"]
    /\ req' = [req EXCEPT ![t] = NoRequest]
    /\ UNCHANGED <<audit, nreq>>
    /\ UNCHANGED gmvars /\ UNCHANGED mlvars

\* A faulty predict_file(): the timer is started when predict_file() is
\* entered, before the image is decoded and the model is asked for.
pre_t_atEntry(r) == r.entered

\* predict_ndarray(), line 39: `pre_t = time.time()`, the stopwatch of the
\* request when the line runs.
pre_t(r) == r.clock

\* predict_ndarray(), lines 39-63, once get_model() has returned: start the
\* timer, resize, detect, map the boxes, read the timer. The boxes, the latency,
\* and the stopwatch at the return.
predict_ndarray(r, img) ==
    LET start == pre_t(r)
        out   == Detections[img]
        boxes == MapBoxes(out.boxes)
        end   == r.clock + Cost.resize + out.ms + Len(boxes) * Cost.map
    IN  [boxes |-> boxes, total_ms |-> end - start, clock |-> end]

\* predict_file(), lines 66-68, up to the call of get_model(): the request
\* when _read_image_bytes has decoded the image.
predict_file(r) ==
    [r EXCEPT !.entered = r.clock, !.clock = r.clock + Cost.decode]

\* A /predict response: the status, and the boxes of a 200.
PredictResponse(r, status, boxes) == Response(r, status, status = 200, boxes)

\* predict(), lines 69-72 and 124-126: the HTTPException of a /predict.
PredictError(r, status) ==
    [PredictResponse(r, status, <<>>) EXCEPT
       !.detail = IF status = 400 THEN "Please upload an image file."
                  ELSE "Prediction failed"]

\* A faulty predict(): the latency is cut to 3 decimals, not rounded.
PredictOk_truncates(r, res) ==
    [PredictResponse(r, 200, res.boxes) EXCEPT
       !.files = r.files, !.elapsed = res.clock, !.total_ms = res.total_ms,
       !.latency_ms = res.total_ms \div 10]

\* predict(), lines 116-123: the body of a 200.
PredictOk(r, res) ==
    [PredictResponse(r, 200, res.boxes) EXCEPT
       !.files = r.files, !.elapsed = res.clock, !.total_ms = res.total_ms, !.latency_ms = RoundHalfEven(res.total_ms, 10)]

\* predict(), lines 69-75 up to the call of get_model() in predict_ndarray
\* (infer.py line 38): a content type that is no image is a 400; bytes that do
\* not decode raise in _read_image_bytes, which the handler turns into a 500.
PredictCall(t) ==
    /\ t = LoopThread
    /\ pc[t] = "idle"
    /\ spc["lifespan"] = "idle"
    /\ nreq < MaxReqs
    /\ nreq' = nreq + 1
    /\ \E conf \in Confs, ctype \in BOOLEAN, img \in Images :
         LET r == [Request("predict", conf, nreq + 1) EXCEPT
                     !.files = <<img>>, !.clock = Cost.read] IN
         IF ~ctype
         THEN /\ resp' = [resp EXCEPT ![t] = PredictError(r, 400)]
              /\ UNCHANGED <<pc, req>>
         ELSE IF ~Decodes(img)
         THEN /\ resp' = [resp EXCEPT ![t] = PredictError(r, 500)]
              /\ UNCHANGED <<pc, req>>
         ELSE /\ req' = [req EXCEPT ![t] = predict_file(r)]
              /\ pc' = [pc EXCEPT ![t] = "gm_check"]
              /\ UNCHANGED resp
    /\ UNCHANGED <<warmed, audit>>
    /\ UNCHANGED gmvars /\ UNCHANGED mlvars

\* predict(), lines 102-114: the dict of the /predict event.
PredictEvent(r, res) ==
    [run_name |-> "inference", req |-> r.id, n_boxes |-> Len(res.boxes),
     latency_ms |-> res.total_ms, conf |-> FloatStr(r.conf), imgsz |-> "640"]

\* predict(), lines 77-95: one CSV line per box.
AuditLines(r, res) ==
    [i \in 1..Len(res.boxes) |->
       [file |-> r.id, filename |-> r.files[1], cls |-> res.boxes[i].cls,
        conf |-> res.boxes[i].conf, latency_ms |-> RoundHalfEven(res.total_ms, 10)]]

\* predict_ndarray() from line 39 and predict() from line 77, once get_model()
\* has returned: detect and map the boxes, append the CSV lines, call
\* log_async() and answer 200. A detector or a CSV file that raises is a 500,
\* with nothing logged.
PredictRun(t) ==
    /\ req[t].op = "predict"
    /\ pc[t] = "have_model"
    /\ \E raises \in {"detect", "csv", "no"} :
         LET res == predict_ndarray(req[t], req[t].files[1]) IN
         IF raises # "no"
         THEN /\ resp' = [resp EXCEPT ![t] = PredictError(req[t], 500)]
              /\ UNCHANGED <<audit, q, unfinished, events, logged>>
         ELSE /\ audit' = audit \o AuditLines(req[t], res)
              /\ log_async(PredictEvent(req[t], res))
              /\ resp' = [resp EXCEPT ![t] = PredictOk(req[t], res)]
    /\ pc' = [pc EXCEPT ![t] = "idle"]
    /\ req' = [req EXCEPT ![t] = NoRequest]
    /\ UNCHANGED <<warmed, nreq>>
    /\ UNCHANGED gmvars
    /\ UNCHANGED <<fixed, started, callers, spc, ncalls, wpc, witem, mlflow>>

\* predict(), lines 124-126, when get_model() raised: a 500.
PredictFail(t) ==
    /\ req[t].op = "predict"
    /\ pc[t] = "gm_raise"
    /\ resp' = [resp EXCEPT ![t] = PredictError(req[t], 500)]
    /\ pc' = [pc EXCEPT ![t] = "idle"]
    /\ req' = [req EXCEPT ![t] = NoRequest]
    /\ UNCHANGED <<warmed, audit, nreq>>
    /\ UNCHANGED gmvars /\ UNCHANGED mlvars

\* A faulty predict_batch(): a failure answers with the results so far.
BatchAbort_partial(r) ==
    [Response(r, 500, FALSE, <<>>) EXCEPT
       !.detail = "Internal Server Error", !.spans = r.spans, !.results = r.results]

\* predict_batch(), lines 129-175, has no try/except: an exception leaves the
\* handler and the server answers its own 500, with no results. spans tells
\* how far the batch had got.
BatchAbort(r) ==
    [Response(r, 500, FALSE, <<>>) EXCEPT
       !.detail = "Internal Server Error", !.spans = r.spans]

\* predict_batch(), line 143: the entry of one image in `results`.
BatchResult(f, res) == [filename |-> f, boxes |-> res.boxes, latency_ms |-> res.total_ms]

\* A faulty predict_batch(): the newest result is put in front.
BatchAppend_inFront(results, e) == <<e>> \o results

\* predict_batch(), line 143: `results.append(...)`.
BatchAppend(results, e) == Append(results, e)

\* max() of two integers.
Max(a, b) == IF a >= b THEN a ELSE b

\* Sum of n_boxes over the results (lines 135 and 144).
RECURSIVE NBoxesTotal(_)
NBoxesTotal(results) ==
    IF results = <<>> THEN 0
    ELSE Len(Head(results).boxes) + NBoxesTotal(Tail(results))

\* A faulty predict_batch(): the average is not divided by the number of files.
BatchOk_notDivided(r) ==
    [Response(r, 200, TRUE, <<>>) EXCEPT
       !.files = r.files, !.spans = r.spans,
       !.results = r.results, !.batch_size = Len(r.files), !.elapsed = r.clock,
       !.batch_latency_ms = RoundHalfEven(r.clock, 100),
       !.avg_latency_ms = RoundHalfEven(r.clock, 100)]

\* predict_batch(), lines 150-151 and 170-175: the body of a 200. elapsed is
\* the stopwatch, started at line 133; both figures are rounded to 2 decimals.
BatchOk(r) ==
    [Response(r, 200, TRUE, <<>>) EXCEPT
       !.files = r.files, !.spans = r.spans,
       !.results = r.results, !.batch_size = Len(r.files), !.elapsed = r.clock,
       !.batch_latency_ms = RoundHalfEven(r.clock, 100),
       !.avg_latency_ms = RoundHalfEven(r.clock, 100 * Max(1, Len(r.files)))]

\* predict_batch(), lines 154-168: the dict of the /predict_batch event.
BatchEvent(r) ==
    [run_name |-> "batch_inference", req |-> r.id, n_boxes |-> NBoxesTotal(r.results),
     batch_size |-> Len(r.files),
     batch_latency_ms |-> RoundHalfEven(r.clock, 100),
     avg_latency_ms |-> RoundHalfEven(r.clock, 100 * Max(1, Len(r.files))),
     conf |-> FloatStr(r.conf), imgsz |-> "640"]

\* predict_batch(), lines 139-140 up to the call of get_model(): read the next
\* file and decode it; bytes that do not decode raise.
BatchImage(t, r) ==
    LET k  == Len(r.results) + 1
        r1 == [r EXCEPT !.clock = @ + Cost.read]
    IN  IF ~Decodes(r.files[k])
        THEN /\ resp' = [resp EXCEPT ![t] = BatchAbort(r1)]
             /\ pc' = [pc EXCEPT ![t] = "idle"]
             /\ req' = [req EXCEPT ![t] = NoRequest]
        ELSE /\ req' = [req EXCEPT ![t] = predict_file(r1)]
             /\ pc' = [pc EXCEPT ![t] = "gm_check"]
             /\ UNCHANGED resp

\* predict_batch(), lines 132-140: a batch of one or more files; the first
\* file is read and decoded.
BatchCall(t) ==
    /\ t = LoopThread
    /\ pc[t] = "idle"
    /\ spc["lifespan"] = "idle"
    /\ \E conf \in Confs, n \in 1..(MaxReqs - nreq) :
         \E files \in [1..n -> Images] :
           /\ nreq' = nreq + n
           /\ BatchImage(t, [Request("batch", conf, nreq + 1) EXCEPT !.files = files])
    /\ UNCHANGED <<warmed, audit>>
    /\ UNCHANGED gmvars /\ UNCHANGED mlvars

\* A faulty predict_batch(): log_async() is called in the loop, once for each
\* image.
BatchRun_logsEachImage(t) ==
    /\ req[t].op = "batch"
    /\ pc[t] = "have_model"
    /\ \E raises \in BOOLEAN :
         LET r   == req[t]
             f   == r.files[Len(r.results) + 1]
             res == predict_ndarray(r, f)
             r2  == [r EXCEPT !.clock = res.clock + Cost.append,
                              !.results = BatchAppend(@, BatchResult(f, res)),
                              !.spans = Append(@, [entered |-> r.entered,
                                                   returned |-> res.clock])]
         IN  IF raises
             THEN /\ resp' = [resp EXCEPT ![t] = BatchAbort(r)]
                  /\ pc' = [pc EXCEPT ![t] = "idle"]
                  /\ req' = [req EXCEPT ![t] = NoRequest]
                  /\ UNCHANGED <<q, unfinished, events, logged>>
             ELSE IF Len(r2.results) < Len(r2.files)
             THEN /\ BatchImage(t, r2)
                  /\ log_async(BatchEvent(r2))
             ELSE /\ log_async(BatchEvent(r2))
                  /\ resp' = [resp EXCEPT ![t] = BatchOk(r2)]
                  /\ pc' = [pc EXCEPT ![t] = "idle"]
                  /\ req' = [req EXCEPT ![t] = NoRequest]
    /\ UNCHANGED <<warmed, audit, nreq>>
    /\ UNCHANGED gmvars
    /\ UNCHANGED <<fixed, started, callers, spc, ncalls, wpc, witem, mlflow>>

\* predict_batch(), lines 140-175, once get_model() has returned for the
\* current image: detect and map its boxes and append its result; then go on
\* with the next file or, after the last, call log_async() and answer 200. A
\* detector that raises ends the call.
BatchRun(t) ==
    /\ req[t].op = "batch"
    /\ pc[t] = "have_model"
    /\ \E raises \in BOOLEAN :
         LET r   == req[t]
             f   == r.files[Len(r.results) + 1]
             res == predict_ndarray(r, f)
             r2  == [r EXCEPT !.clock = res.clock + Cost.append,
                              !.results = BatchAppend(@, BatchResult(f, res)),
                              !.spans = Append(@, [entered |-> r.entered,
                                                   returned |-> res.clock])]
         IN  IF raises
             THEN /\ resp' = [resp EXCEPT ![t] = BatchAbort(r)]
                  /\ pc' = [pc EXCEPT ![t] = "idle"]
                  /\ req' = [req EXCEPT ![t] = NoRequest]
                  /\ UNCHANGED <<q, unfinished, events, logged>>
             ELSE IF Len(r2.results) < Len(r2.files)
             THEN /\ BatchImage(t, r2)
                  /\ UNCHANGED <<q, unfinished, events, logged>>
             ELSE /\ log_async(BatchEvent(r2))
                  /\ resp' = [resp EXCEPT ![t] = BatchOk(r2)]
                  /\ pc' = [pc EXCEPT ![t] = "idle"]
                  /\ req' = [req EXCEPT ![t] = NoRequest]
    /\ UNCHANGED <<warmed, audit, nreq>>
    /\ UNCHANGED gmvars
    /\ UNCHANGED <<fixed, started, callers, spc, ncalls, wpc, witem, mlflow>>

\* predict_batch() when get_model() raised: the exception leaves the handler.
BatchFail(t) ==
    /\ req[t].op = "batch"
    /\ pc[t] = "gm_raise"
    /\ resp' = [resp EXCEPT ![t] = BatchAbort(req[t])]
    /\ pc' = [pc EXCEPT ![t] = "idle"]
    /\ req' = [req EXCEPT ![t] = NoRequest]
    /\ UNCHANGED <<warmed, audit, nreq>>
    /\ UNCHANGED gmvars /\ UNCHANGED mlvars

\* --------------------------------------------------------- specifications

\* The state after import: nothing started, nothing loaded, an empty queue.
\* MLFLOW_TRACKING_URI is set or not, and `cs` are the threads that call start().
ServiceInit(cs) ==
    /\ mlflowUri \in BOOLEAN
    /\ q = <<>>
    /\ unfinished = 0
    /\ events = <<>>
    /\ started = FALSE
    /\ callers = cs
    /\ spc = [c \in StartCallers |-> "idle"]
    /\ ncalls = [c \in StartCallers |-> 0]
    /\ wpc = [w \in Workers |-> "none"]
    /\ witem = [w \in Workers |-> None]
    /\ mlflow = <<>>
    /\ logged = <<>>
    /\ model = None
    /\ nloads = 0
    /\ okloads = {}
    /\ pc = [t \in Threads |-> "idle"]
    /\ req = [t \in Threads |-> NoRequest]
    /\ resp = [t \in Threads |-> NoResponse]
    /\ warmed = FALSE
    /\ audit = <<>>
    /\ nreq = 0

InitWith(cs) ==
    /\ ServiceInit(cs)
    /\ detected = <<>>
    /\ mapped = [done |-> FALSE, boxes |-> <<>>]

\* The class indices a detector result may carry: those of the table, and
\* some below and above it.
ClassIds == (0 - 2)..(Len(CLASS_NAMES) + 1)

\* A box of class c as the detector gives it.
RawBox(c) == [cls |-> c, conf |-> 91236, xyxy |-> <<105, 207, 1009, 1995>>]

\* The detector results box mapping is tried on: up to MaxBoxes boxes, each
\* of any class index.
DetectorResults ==
    UNION {[1..n -> {RawBox(c) : c \in ClassIds}] : n \in 0..MaxBoxes}

\* Box mapping taken alone: the service at rest, and any detector result.
MapInit ==
    /\ ServiceInit({"lifespan"})
    /\ detected \in DetectorResults
    /\ mapped = [done |-> FALSE, boxes |-> <<>>]

\* predict_ndarray(), lines 46-59, on the result.
MapDetected ==
    /\ ~mapped.done
    /\ mapped' = [done |-> TRUE, boxes |-> MapBoxes(detected)]
    /\ UNCHANGED <<mlflowUri, detected, q, unfinished, events, started, callers,
                   spc, ncalls, wpc, witem, mlflow, logged>>
    /\ UNCHANGED gmvars /\ UNCHANGED rqvars

MapNext == MapDetected

MapSpec == MapInit /\ [][MapNext]_vars

\* The service as it runs: start() is called by the lifespan only.
Init == InitWith({"lifespan"})

\* start() called by two threads at once.
InitStartRace == InitWith(StartCallers)

Next ==
    \/ \E c \in StartCallers : StartCheck(c)
    \/ \E c \in StartCallers : StartSet(c)
    \/ \E c \in StartCallers : StartSpawn(c)
    \/ \E w \in Workers : WorkerBegin(w)
    \/ \E w \in Workers : WorkerGet(w)
    \/ \E w \in Workers : WorkerStartRun(w)
    \/ \E w \in Workers : WorkerLog(w)
    \/ \E t \in Threads : GetModelCheck(t)
    \/ \E t \in Threads : GetModelLoad(t)
    \/ \E t \in Threads : GetModelReturn(t)
    \/ \E t \in PoolThreads : WarmupCall(t)
    \/ \E t \in PoolThreads : WarmupReturn(t)
    \/ PredictCall(LoopThread)
    \/ PredictRun(LoopThread)
    \/ PredictFail(LoopThread)
    \/ BatchCall(LoopThread)
    \/ BatchRun(LoopThread)
    \/ BatchFail(LoopThread)

Spec == Init /\ [][Next]_vars

StartRaceSpec == InitStartRace /\ [][Next]_vars

\* A worker runs as the operating system schedules it: a step it can take is
\* taken in the end.
WorkerFairness ==
    \A w \in Workers :
        /\ WF_vars(WorkerBegin(w)) /\ WF_vars(WorkerGet(w))
        /\ WF_vars(WorkerStartRun(w)) /\ WF_vars(WorkerLog(w))

\* So does the lifespan, which calls start(). Nothing is asked of the
\* requests: they come in, and are served, or not.
Fairness ==
    /\ \A c \in StartCallers :
         WF_vars(StartCheck(c)) /\ WF_vars(StartSet(c)) /\ WF_vars(StartSpawn(c))
    /\ WorkerFairness

FairSpec == Spec /\ Fairness

WorkerFairSpec == Spec /\ WorkerFairness

\* ----------------------------------------------------------------- claims

\* The worker threads start() has created.
Created == {w \in Workers : wpc[w] # "none"}
\* Item i is in the queue.
InQ(i) == \E k \in DOMAIN q : q[k] = i
\* A worker holds item i.
Held(i) == \E w \in Workers : witem[w] = i
\* The places of the MLflow log where start_run was called for item i.
StartRuns(i) == {k \in DOMAIN mlflow : mlflow[k].call = "start_run" /\ mlflow[k].item = i}
\* Item i has been taken from the queue by a worker.
Taken(i) == Held(i) \/ StartRuns(i) # {}
\* log_async built event i and the queue was full: it is in no queue, no
\* worker's hands and no run.
Dropped(i) == i \in DOMAIN events /\ ~InQ(i) /\ ~Taken(i)

\* C1: get_model() loads the model once even when several threads call it
\* while _model is unset: no two callers are in the loader together and no
\* second handle is ever made.
C1_OneLoadUnderRace ==
    /\ \A t, u \in Threads : pc[t] = "gm_load" /\ pc[u] = "gm_load" => t = u
    /\ Cardinality(okloads) <= 1

\* C2: start() is idempotent, also when threads call it at the same time: at
\* most one worker thread is ever created, and exactly one once a call has
\* returned.
C2_StartIdempotent ==
    /\ Cardinality(Created) <= 1
    /\ (\A c \in StartCallers : spc[c] = "idle") /\ (\E c \in StartCallers : ncalls[c] > 0)
         => Cardinality(Created) = 1

\* A step in which log_async() built an event (tracking is on).
LogAsyncCalled == Len(events') = Len(events) + 1

\* C3: with a backend configured, log_async() on a full queue returns (the
\* handler goes on to answer 200), the new event is the one dropped, the queue
\* is left as it was, and the queue never holds more than its capacity.
C3_FullQueueDropsNewest ==
    /\ [][LogAsyncCalled /\ Len(q) = QMaxSize =>
            /\ q' = q
            /\ unfinished' = unfinished
            /\ \A k \in DOMAIN q' : q'[k] # Len(events')
            /\ \A w \in Workers : witem'[w] # Len(events')
            /\ mlflow' = mlflow
            /\ resp'[LoopThread].status = 200
            /\ pc'[LoopThread] = "idle"]_vars
    /\ [][LogAsyncCalled /\ Len(q) < QMaxSize => q' = Append(q, Len(events'))]_vars
    /\ [](Len(q) <= QMaxSize)

\* C3's witness: the second event was dropped on a full queue that still holds
\* the first, and the request that logged it was answered 200.
C3_Witness ==
    /\ Len(q) = QMaxSize
    /\ \E i \in DOMAIN events : Dropped(i) /\ \A k \in DOMAIN q : q[k] < i
    /\ resp[LoopThread].status = 200

\* No item is in two places, and none is forwarded twice.
TakenOnce ==
    \A i \in DOMAIN events :
        /\ Cardinality({k \in DOMAIN q : q[k] = i})
             + Cardinality({w \in Workers : witem[w] = i}) <= 1
        /\ Cardinality(StartRuns(i)) <= 1
        /\ StartRuns(i) # {} => ~InQ(i)

\* C4: every event log_async() has queued is taken from the queue by the
\* worker in the end, and once only.
C4_AcceptedEventsAreTaken ==
    /\ \A i \in 1..MaxReqs : InQ(i) ~> Taken(i)
    /\ []TakenOnce

Forwarded(i) ==
    \E j, k \in DOMAIN mlflow :
        /\ j < k
        /\ mlflow[j] = Call("start_run", i, "ok")
        /\ mlflow[k] = Call("end_run", i, "ok")
        /\ \A m \in j..k : mlflow[m].ok

ForwardFails(w) ==
    /\ wpc[w] \in {"run", "log"}
    /\ Len(mlflow') > Len(mlflow)
    /\ \E k \in (Len(mlflow) + 1)..Len(mlflow') :
           mlflow'[k].item = witem[w] /\ ~mlflow'[k].ok

\* C6: a failure while forwarding is swallowed: the worker is back at the
\* queue, the failed event is not put back and never started again, and what
\* is queued for a worker that has begun its loop is taken: the queue empties.
C6_ForwardFailureSwallowed ==
    /\ [][\A w \in Workers : ForwardFails(w) =>
            /\ wpc'[w] = "get"
            /\ q' = q
            /\ \A v \in Workers : witem'[v] # witem[w]
            /\ unfinished' = unfinished - 1]_vars
    /\ []TakenOnce
    /\ (\E w \in Workers : wpc[w] \in {"get", "run", "log"}) ~> q = <<>>

\* C6's witness: the first event failed in its run, and the second, queued
\* behind it, went through.
C6_Witness ==
    /\ \E k \in DOMAIN mlflow : mlflow[k].item = 1 /\ ~mlflow[k].ok
    /\ Forwarded(2)

\* C7: with a backend configured a worker, once started, is never ended by a
\* failure of the backend, in its setup or while forwarding: it ends only by
\* taking None from the queue.
C7_WorkerNeverDies ==
    mlflowUri => \A w \in Workers :
        /\ wpc[w] # "crashed"
        /\ wpc[w] \notin {"none", "begin", "get", "run", "log"} =>
             wpc[w] = "stopped" /\ witem[w] = None

\* C8: with no backend configured the queue stays empty, no event is built and
\* no call into MLflow is made, whatever is called; the worker returns at once.
C8_DisabledIsNoOp ==
    ~mlflowUri =>
        /\ q = <<>> /\ unfinished = 0 /\ events = <<>>
        /\ mlflow = <<>>
        /\ \A w \in Workers : wpc[w] \in {"none", "begin", "returned"}

\* C8's witness: tracking is off, start() has run, its worker has returned and
\* a /predict that found boxes was answered 200.
C8_Witness ==
    /\ ~mlflowUri
    /\ started /\ \E w \in Workers : wpc[w] = "returned"
    /\ resp[LoopThread].status = 200 /\ resp[LoopThread].boxes # <<>>
    /\ audit # <<>>

\* C9: a load that fails is not cached. The failing call ends with the error
\* and _model as it was; a call that finds _model unset loads again; _model
\* and what get_model() returns are always handles the loader returned.
C9_FailedLoadNotCached ==
    /\ [][\A t \in Threads :
            /\ pc[t] = "gm_load" /\ pc'[t] = "gm_raise" =>
                 model' = model /\ okloads' = okloads
            /\ pc[t] = "gm_check" /\ model = None /\ pc'[t] # pc[t] =>
                 pc'[t] = "gm_load" /\ nloads' = nloads
            /\ pc[t] = "gm_load" /\ pc'[t] # pc[t] => nloads' = nloads + 1]_vars
    /\ [](model # None => model \in okloads)
    /\ [](\A t \in Threads : pc[t] = "have_model" => req[t].handle \in okloads)
    /\ [](\A t \in Threads : resp[t].handle # None => resp[t].handle \in okloads)

\* C9's witness: the first load failed, the second was made and succeeded, and
\* its handle was returned.
C9_Witness ==
    /\ 1 \notin okloads /\ 2 \in okloads
    /\ \E t \in Threads : pc[t] = "have_model" /\ req[t].handle = 2

\* C10: /warmup is idempotent: once a /warmup has answered ok=True the model
\* has been loaded exactly once; every /warmup that comes in after that
\* answers ok=True; and a /warmup whose load fails answers ok=False, status 200.
C10_WarmupIdempotent ==
    /\ warmed => Cardinality(okloads) = 1
    /\ \A t \in PoolThreads :
         resp[t].op = "warmup" =>
            /\ resp[t].status = 200
            /\ resp[t].since => resp[t].ok
            /\ resp[t].ok <=> resp[t].handle # None

\* The step sends a response of thread t.
Answers(t) == resp'[t] # resp[t]
\* The boxes a 200 carries: those of a /predict, or of all results of a batch.
BoxesReturned(rsp) ==
    IF rsp.op = "batch" THEN NBoxesTotal(rsp.results) ELSE Len(rsp.boxes)
\* The step answers 200 to a /predict or a /predict_batch of thread t.
Succeeds(t) ==
    Answers(t) /\ resp'[t].op \in {"predict", "batch"} /\ resp'[t].status = 200

\* C11: a /predict or /predict_batch call that succeeds has appended to the
\* audit sink one line for each box of its response, and none when the
\* response has no box.
C11_OneAuditLinePerBox ==
    [][\A t \in Threads :
         Succeeds(t) => Len(audit') = Len(audit) + BoxesReturned(resp'[t])]_vars

\* C12: a /predict or /predict_batch call that succeeds makes one call of
\* log_async(), in the step that ends it, when all its images are done: no
\* other step calls log_async(), and a batch of N images makes one call.
C12_OneLogCallPerSuccess ==
    [][/\ \A t \in Threads :
            Succeeds(t) =>
                /\ logged' = Append(logged, resp'[t].id)
                /\ resp'[t].op = "batch" =>
                      Len(resp'[t].results) = Len(resp'[t].files)
       /\ logged' # logged => \E t \in Threads : Succeeds(t)]_vars

\* A batch of two images has been answered 200, and log_async() was called once.
C12_Witness ==
    /\ resp[LoopThread].op = "batch" /\ resp[LoopThread].status = 200
    /\ Len(resp[LoopThread].results) = 2
    /\ logged = <<resp[LoopThread].id>>

\* Python's str() of the thresholds, as a table.
ConfText(c) == CASE c = 25 -> "0.25"

\* C13: the event a /predict or /predict_batch enqueues carries the threshold
\* of its request as 'conf' and the configured input size INPUT_SIZE, which the
\* orchestrator resizes to, as 'imgsz'.
C13_EventParams ==
    [][\A t \in Threads :
         (Succeeds(t) /\ mlflowUri) =>
             LET ev == events'[Len(events')] IN
                 /\ ev.req = resp'[t].id
                 /\ ev.conf = ConfText(req[t].conf)
                 /\ ev.imgsz = str(INPUT_SIZE)]_vars

\* The 200 responses of /predict_batch that are held.
BatchOks == {t \in Threads : resp[t].op = "batch" /\ resp[t].status = 200}

\* What the detector and the mapping give for one image: its boxes, and the
\* time resize, detection and mapping take.
BoxesFor(img) == MapBoxes(Detections[img].boxes)
LatencyFor(img) ==
    Cost.resize + Detections[img].ms + Len(Detections[img].boxes) * Cost.map

\* C14: the results of a /predict_batch call that succeeds are as many as the
\* files, the i-th is that of the i-th file (its name, its boxes, its
\* latency), and predict_file() was entered for a file only after it had
\* returned for the file before.
C14_BatchInOrder ==
    \A t \in BatchOks :
        LET rsp == resp[t]
            N   == Len(rsp.files)
        IN  /\ N >= 1 /\ rsp.batch_size = N
            /\ Len(rsp.results) = N /\ Len(rsp.spans) = N
            /\ \A i \in 1..N :
                 /\ rsp.results[i].filename = rsp.files[i]
                 /\ rsp.results[i].boxes = BoxesFor(rsp.files[i])
                 /\ rsp.results[i].latency_ms = LatencyFor(rsp.files[i])
                 /\ rsp.spans[i].entered < rsp.spans[i].returned
            /\ \A i \in 1..(N - 1) : rsp.spans[i].returned <= rsp.spans[i + 1].entered

\* A batch of two files that differ has been answered 200.
C14_Witness ==
    \E t \in BatchOks : resp[t].files = <<"signs.png", "empty.png">>

\* The distance of two integers.
Dist(a, b) == IF a >= b THEN a - b ELSE b - a

\* C15 (as stated): in the 200 of a /predict_batch with N >= 1 files, the
\* reported avg_latency_ms is the reported batch_latency_ms divided by N.
C15_AvgIsBatchOverN ==
    \A t \in BatchOks :
        resp[t].avg_latency_ms * resp[t].batch_size = resp[t].batch_latency_ms

\* C15 (amended): avg_latency_ms is the measured time of the batch divided by
\* N, and batch_latency_ms that time itself, each rounded to the nearest
\* hundredth of a millisecond on its own; so the two agree when N = 1, and
\* N * avg_latency_ms is within (N + 1) / 2 hundredths of batch_latency_ms.
C15_AvgIsElapsedOverN_Rounded ==
    \A t \in BatchOks :
        LET N == resp[t].batch_size
            E == resp[t].elapsed
            A == resp[t].avg_latency_ms
            B == resp[t].batch_latency_ms
        IN  /\ N >= 1
            /\ 2 * Dist(100 * N * A, E) <= 100 * N
            /\ 2 * Dist(100 * B, E) <= 100
            /\ N = 1 => A = B
            /\ 2 * Dist(N * A, B) <= N + 1

\* A batch of two files has been answered 200, and twice the reported average
\* is not the reported time of the batch.
C15_Witness ==
    \E t \in BatchOks :
        /\ resp[t].batch_size = 2
        /\ 2 * resp[t].avg_latency_ms # resp[t].batch_latency_ms

\* C16: a /predict_batch call in which decoding or detection of one image
\* fails, fails as a whole: the response is an error with no results, also of
\* the images done before, and log_async() is not called for it; a 200 has a
\* result for every file, and every file decoded.
C16_BatchFailsAsAWhole ==
    [][\A t \in Threads :
         (Answers(t) /\ resp'[t].op = "batch") =>
             IF resp'[t].status = 200
             THEN /\ Len(resp'[t].results) = Len(resp'[t].files)
                  /\ \A i \in DOMAIN resp'[t].files : Decodes(resp'[t].files[i])
             ELSE /\ resp'[t].status = 500
                  /\ resp'[t].results = <<>>
                  /\ logged' = logged
                  /\ \A k \in DOMAIN logged : logged[k] # resp'[t].id]_vars

\* A batch has failed after its first image was done.
C16_Witness ==
    /\ resp[LoopThread].op = "batch" /\ resp[LoopThread].status = 500
    /\ Len(resp[LoopThread].spans) = 1
    /\ resp[LoopThread].results = <<>>

\* C17: every failure of a /predict or a /predict_batch, in decoding or in
\* detection, is answered with the same error: status 500, detail
\* 'Prediction failed'.
C17_OneGenericError ==
    \A t \in Threads :
        (resp[t].op \in {"predict", "batch"} /\ resp[t].status \notin {200, 400}) =>
            /\ resp[t].status = 500
            /\ resp[t].detail = "Prediction failed"

\* The 200 responses of /predict that are held.
PredictOks == {t \in Threads : resp[t].op = "predict" /\ resp[t].status = 200}

\* C18: the 200 of a /predict carries the boxes the orchestrator returned for
\* the image, each with the same cls, conf and corners and in the same order,
\* and as latency_ms the orchestrator's latency rounded to 3 decimals, which is
\* not negative.
C18_PredictEchoesResult ==
    \A t \in PredictOks :
        LET rsp == resp[t]
            out == BoxesFor(rsp.files[1])
        IN  /\ Len(rsp.boxes) = Len(out)
            /\ \A i \in DOMAIN out :
                 /\ rsp.boxes[i].cls = out[i].cls /\ rsp.boxes[i].conf = out[i].conf
                 /\ rsp.boxes[i].x1 = out[i].x1 /\ rsp.boxes[i].y1 = out[i].y1
                 /\ rsp.boxes[i].x2 = out[i].x2 /\ rsp.boxes[i].y2 = out[i].y2
            /\ rsp.latency_ms >= 0
            /\ 2 * Dist(10 * rsp.latency_ms, rsp.total_ms) <= 10

\* A /predict has been answered 200 with two boxes.
C18_Witness ==
    \E t \in PredictOks : Len(resp[t].boxes) = 2 /\ resp[t].latency_ms > 0

\* The class name the claim gives to an index, as a table.
NameOf(c) ==
    CASE c = 0 -> "Speed Limit 50"      [] c = 1 -> "Speed Limit 100"
      [] c = 2 -> "No Overtaking"       [] c = 3 -> "Yield"
      [] c = 4 -> "Stop"                [] c = 5 -> "No Entry"
      [] c = 6 -> "Danger Ahead"        [] c = 7 -> "Road Work Ahead"
      [] c = 8 -> "Pedestrian Crossing" [] c = 9 -> "Children Crossing"
      [] c = 10 -> "10" [] c = 11 -> "11" [] c = 12 -> "12"
      [] c = -1 -> "-1" [] c = -2 -> "-2" [] c = -3 -> "-3"

\* C19: box mapping gives one box for each box of the detector, in the
\* detector's order, and names the class of index c CLASS_NAMES[c] when
\* 0 <= c < len(CLASS_NAMES) and the decimal string of c otherwise, also when
\* c is negative.
C19_ClassNameMapping ==
    mapped.done =>
        /\ Len(mapped.boxes) = Len(detected)
        /\ \A i \in DOMAIN detected : mapped.boxes[i].cls = NameOf(detected[i].cls)

\* Two boxes have been mapped, the first of a negative class index and the
\* second of an index past the table.
C19_Witness ==
    /\ mapped.done /\ Len(detected) = 2
    /\ detected[1].cls = -1 /\ detected[2].cls = Len(CLASS_NAMES)
    /\ mapped.boxes[1].cls = "-1" /\ mapped.boxes[2].cls = "10"

\* C20: the latency predict_file() reports is the time of resize, detection
\* and box mapping, no more and no less: the time of decoding the image and of
\* get_model(), a first load of the model included, is passed on the
\* stopwatch of the request and is not in the figure.
C20_LatencyCoversResizeDetectMap ==
    /\ \A t \in PredictOks :
         /\ resp[t].total_ms = LatencyFor(resp[t].files[1])
         /\ resp[t].elapsed >= Cost.read + Cost.decode + resp[t].total_ms
    /\ \A t \in BatchOks :
         \A i \in DOMAIN resp[t].results :
             /\ resp[t].results[i].latency_ms = LatencyFor(resp[t].files[i])
             /\ resp[t].spans[i].returned - resp[t].spans[i].entered
                    >= Cost.decode + resp[t].results[i].latency_ms

\* A /predict that loaded the model itself has been answered 200: its
\* stopwatch shows the load, its latency does not.
C20_Witness ==
    \E t \in PredictOks :
        /\ resp[t].elapsed >= Cost.load + Cost.decode + resp[t].total_ms
        /\ resp[t].total_ms < Cost.load

\* Tracking is enabled and the queue is full.
QueueFull == mlflowUri /\ Len(q) = QMaxSize
\* Tracking is enabled and the worker has died in its setup.
WorkerDead == mlflowUri /\ \E w \in Workers : wpc[w] = "crashed"

\* Thread t has the model and is about to detect on the file of a /predict,
\* or on the last file of a batch: the step that calls log_async().
AboutToLog(t) ==
    /\ pc[t] = "have_model"
    /\ \/ req[t].op = "predict"
       \/ req[t].op = "batch" /\ Len(req[t].results) + 1 = Len(req[t].files)

\* The call of log_async() that thread t is about to make returns: it does
\* not wait and does not raise. Whether it does depends on the state of
\* telemetry and not on what the event holds.
LogAsyncReturns(t) ==
    ENABLED log_async(IF req[t].op = "predict"
                      THEN PredictEvent(req[t], predict_ndarray(req[t], req[t].files[1]))
                      ELSE BatchEvent(req[t]))

\* C21: telemetry has no say in a prediction response. Whatever state it is
\* in (disabled, queue empty or full, worker not started or dead, backend
\* failing), the call of log_async() returns; the step that makes the call
\* answers 200, with the boxes the detector gives for each file; and no step
\* of start() or of the worker touches a request or a response.
C21_TelemetryCannotInfluence ==
    /\ [](\A t \in Threads : AboutToLog(t) => LogAsyncReturns(t))
    /\ [][\A t \in Threads :
            (logged' # logged /\ req[t].op \in {"predict", "batch"}) =>
                /\ Succeeds(t)
                /\ IF resp'[t].op = "predict"
                   THEN resp'[t].boxes = BoxesFor(req[t].files[1])
                   ELSE /\ Len(resp'[t].results) = Len(req[t].files)
                        /\ \A i \in DOMAIN resp'[t].results :
                              resp'[t].results[i].boxes = BoxesFor(req[t].files[i])]_vars
    /\ [][(mlflow' # mlflow \/ wpc' # wpc \/ spc' # spc \/ witem' # witem)
            => UNCHANGED <<pc, req, resp>>]_vars

\* Two calls have been answered 200, the last with boxes, while tracking is
\* enabled, the worker is dead and the queue is full: the event of the last
\* call was dropped.
C21_Witness ==
    /\ WorkerDead /\ QueueFull
    /\ Len(events) > Len(q)
    /\ resp[LoopThread].status = 200
    /\ BoxesReturned(resp[LoopThread]) > 0

\* The handles get_model() has returned to thread t: to the request it serves
\* and to the one it answered last.
Returned(t) == {req[t].handle, resp[t].handle} \ {None}

\* C22: once _model is set it is never replaced or cleared, and every
\* get_model() call that returns, on any thread and at any time, returns that
\* one handle.
C22_HandleSetOnce ==
    /\ [][model # None => model' = model]_vars
    /\ [](\A t \in Threads : \A h \in Returned(t) : h = model)

====
